---- MODULE Spec2Model ----
(***************************************************************************)
(* Model of the numeric core of src/app2.py: generate_signals (dual        *)
(* moving-average crossover), backtest (lagged strategy return, compounded *)
(* portfolio value, drawdown, total return, CAGR) and the part of main     *)
(* that drives them (empty-frame check, buy/sell marker selection).        *)
(*                                                                         *)
(* Numbers.  A float is modelled as an exact rational [n, d] in lowest     *)
(* terms with d > 0; NaN is [n |-> 0, d |-> 0].  Rounding error of IEEE    *)
(* doubles is not modelled.  The one irrational operation of the code, the *)
(* power in the CAGR, is kept symbolic (see Pow).                          *)
(*                                                                         *)
(* Indexing.  pandas positions are 0-based, TLA+ sequences 1-based: the    *)
(* pandas position i is the sequence index i + 1.                          *)
(***************************************************************************)
EXTENDS Integers, Sequences, FiniteSets

\* ---------------------------------------------------------------- bounds
MaxLen == 4        \* longest price series drawn
MaxClose == 2      \* close prices are drawn from 1..MaxClose, or are a gap
MaxWindow == 2     \* windows are drawn from 1..MaxWindow

\* ------------------------------------------------------ program constants
MinWindow == 1             \* st.number_input(min_value=1)
MinInvestment == 1000      \* st.number_input(min_value=1000)
DefaultInvestment == 100000
Percent == 100             \* the "* 100" of backtest's return statement

\* Calendar spacing of consecutive bars, in days (daily and weekly bars).
DateSteps == {1, 7}

\* pandas' Series.pct_change() pads gaps forward before dividing up to
\* pandas 2.x (fill_method='pad' by default) and does not from 3.0 on; the
\* repository pins no version, so both builds are possible.
FillMethods == {"pad", "none"}

\* ------------------------------------------------------------- rationals
NaN == [n |-> 0, d |-> 0]

IsNaN(x) == x.d = 0

Abs(k) == IF k < 0 THEN -k ELSE k

RECURSIVE GCD(_, _)
GCD(a, b) == IF b = 0 THEN a ELSE GCD(b, a % b)

\* n / d in lowest terms with a positive denominator; d = 0 gives NaN.
Rat(n, d) ==
    IF d = 0 THEN NaN
    ELSE LET g == GCD(Abs(n), Abs(d))
             s == IF d < 0 THEN -1 ELSE 1
         IN  [n |-> (s * n) \div g, d |-> (s * d) \div g]

FromInt(k) == [n |-> k, d |-> 1]

Zero == FromInt(0)
One == FromInt(1)

Add(x, y) == IF IsNaN(x) \/ IsNaN(y) THEN NaN ELSE Rat(x.n * y.d + y.n * x.d, x.d * y.d)
Sub(x, y) == IF IsNaN(x) \/ IsNaN(y) THEN NaN ELSE Rat(x.n * y.d - y.n * x.d, x.d * y.d)
Mul(x, y) == IF IsNaN(x) \/ IsNaN(y) THEN NaN ELSE Rat(x.n * y.n, x.d * y.d)
\* Close prices are strictly positive, so no divisor of the code is ever 0.
Div(x, y) == IF IsNaN(x) \/ IsNaN(y) THEN NaN ELSE Rat(x.n * y.d, x.d * y.n)

\* IEEE comparison: anything compared with NaN is false.
Gt(x, y) == ~IsNaN(x) /\ ~IsNaN(y) /\ x.n * y.d > y.n * x.d
Le(x, y) == ~IsNaN(x) /\ ~IsNaN(y) /\ x.n * y.d <= y.n * x.d

Max2(a, b) == IF a > b THEN a ELSE b

\* ------------------------------------------------------- pandas operators
\* Series.rolling(window=w).mean(): min_periods defaults to the window; the
\* window at position i holds the (up to) w trailing entries; the result is
\* the sum of the non-NaN entries over their number nobs when
\* nobs >= min_periods, and NaN otherwise.
\* A rolling mean that averages partial windows (min_periods = 1).
RollingMinPeriodsOne(w) == 1

RollingMinPeriods(w) == w

RollingMean(s, w) ==
    [i \in 1..Len(s) |->
        LET lo == Max2(1, i - w + 1)
            obs == {j \in lo..i : ~IsNaN(s[j])}
            nobs == Cardinality(obs)
            RECURSIVE SumTo(_)
            SumTo(j) == IF j < lo THEN Zero
                        ELSE IF j \in obs THEN Add(SumTo(j - 1), s[j])
                        ELSE SumTo(j - 1)
        IN  IF nobs >= RollingMinPeriods(w) THEN Div(SumTo(i), FromInt(nobs)) ELSE NaN]

\* Series.shift(1) of an integer column: NaN first, then the previous entry.
Shift(s) == [i \in 1..Len(s) |-> IF i = 1 THEN NaN ELSE FromInt(s[i - 1])]

\* Series.diff() of an integer column: NaN first, then s[i] - s[i-1].
Diff(s) == [i \in 1..Len(s) |-> IF i = 1 THEN NaN ELSE FromInt(s[i] - s[i - 1])]

\* Series.ffill(): every gap takes the last value before it (leading gaps stay).
FFill(s) ==
    LET RECURSIVE Last(_)
        Last(i) == IF i = 0 THEN NaN
                   ELSE IF IsNaN(s[i]) THEN Last(i - 1) ELSE s[i]
    IN  [i \in 1..Len(s) |-> Last(i)]

\* Series.pct_change(): data / data.shift(1) - 1 on the (padded or raw) data.
PctChange(s, fill) ==
    LET filled == IF fill = "pad" THEN FFill(s) ELSE s
    IN  [i \in 1..Len(s) |->
            IF i = 1 THEN NaN ELSE Sub(Div(filled[i], filled[i - 1]), One)]

\* Series.cumprod() (skipna): NaN entries stay NaN and are skipped by the product.
CumProd(s) ==
    LET RECURSIVE Acc(_)
        Acc(i) == IF i = 0 THEN One
                  ELSE IF IsNaN(s[i]) THEN Acc(i - 1) ELSE Mul(Acc(i - 1), s[i])
    IN  [i \in 1..Len(s) |-> IF IsNaN(s[i]) THEN NaN ELSE Acc(i)]

\* Series.cummax() (skipna): NaN entries stay NaN and are skipped by the maximum.
CumMax(s) ==
    LET RECURSIVE Acc(_)
        Acc(i) == IF i = 0 THEN NaN
                  ELSE IF IsNaN(s[i]) THEN Acc(i - 1)
                  ELSE IF IsNaN(Acc(i - 1)) \/ Gt(s[i], Acc(i - 1)) THEN s[i]
                  ELSE Acc(i - 1)
    IN  [i \in 1..Len(s) |-> IF IsNaN(s[i]) THEN NaN ELSE Acc(i)]

\* Series.min() (skipna): the least non-NaN entry, NaN when there is none.
SeriesMin(s) ==
    LET defined == {i \in 1..Len(s) : ~IsNaN(s[i])}
    IN  IF defined = {} THEN NaN
        ELSE s[CHOOSE i \in defined : \A j \in defined : Le(s[i], s[j])]

\* ------------------------------------------------------------------ state
VARIABLES
    data,                \* the DataFrame: its index, its columns, one sequence per column
    short_window,        \* generate_signals' short_window
    long_window,         \* generate_signals' long_window
    initial_investment,  \* backtest's initial_investment
    fill_method,         \* the pct_change behaviour of the installed pandas
    pc,                  \* where the run is
    result,              \* backtest's returned tuple
    error,               \* the exception or error message the run ended with
    buys,                \* main: positions of the rows with Position == 1
    sells                \* main: positions of the rows with Position == -1

vars == <<data, short_window, long_window, initial_investment, fill_method,
          pc, result, error, buys, sells>>

CloseValues == {FromInt(k) : k \in 1..MaxClose} \cup {NaN}

CloseSeries == UNION {[1..n -> CloseValues] : n \in 0..MaxLen}

Windows == MinWindow..MaxWindow

Investments == {MinInvestment, DefaultInvestment}

NoResult == [returned |-> FALSE]

\* The frame main hands to generate_signals: a strictly increasing date index
\* (day numbers) and the Close column; no derived column exists yet.
Frame(close, step) ==
    [columns |-> {"Close"},
     Date |-> [i \in 1..Len(close) |-> (i - 1) * step],
     Close |-> close,
     Short_MA |-> <<>>, Long_MA |-> <<>>, Signal |-> <<>>, Position |-> <<>>,
     Daily_Return |-> <<>>, Strategy_Return |-> <<>>, Portfolio_Value |-> <<>>]

Init ==
    /\ \E close \in CloseSeries, step \in DateSteps : data = Frame(close, step)
    /\ short_window \in Windows
    /\ long_window \in Windows
    /\ initial_investment \in Investments
    /\ fill_method \in FillMethods
    /\ pc = "start"
    /\ result = NoResult
    /\ error = "none"
    /\ buys = {}
    /\ sells = {}

\* ------------------------------------------------------- generate_signals
\* data['Signal'] = 0
InitialSignal(n) == [i \in 1..n |-> 0]

\* data.loc[data.index[short_window:], 'Signal'] =
\*     (Short_MA[short_window:] > Long_MA[short_window:]).astype(int)
\* The positions short_window.. (sequence indices > short_window) take the
\* comparison; the positions before keep the 0 they were given.
SignalColumn(short_ma, long_ma, sw) ==
    [i \in 1..Len(short_ma) |->
        IF i > sw
        THEN (IF Gt(short_ma[i], long_ma[i]) THEN 1 ELSE 0)
        ELSE InitialSignal(Len(short_ma))[i]]

\* A Position column that subtracts the wrong way round.
PositionColumnReversed(signal) ==
    [i \in 1..Len(signal) |-> IF i = 1 THEN NaN ELSE FromInt(signal[i - 1] - signal[i])]

\* data['Position'] = data['Signal'].diff()
PositionColumn(signal) == Diff(signal)

\* The frame generate_signals returns (the frame it was given, with four
\* columns added).
GenerateSignalsFrame(df, sw, lw) ==
    LET short_ma == RollingMean(df.Close, sw)
        long_ma == RollingMean(df.Close, lw)
        signal == SignalColumn(short_ma, long_ma, sw)
    IN  [df EXCEPT !.columns = @ \cup {"Short_MA", "Long_MA", "Signal", "Position"},
                   !.Short_MA = short_ma,
                   !.Long_MA = long_ma,
                   !.Signal = signal,
                   !.Position = PositionColumn(signal)]

GenerateSignals ==
    /\ pc = "start"
    /\ data' = GenerateSignalsFrame(data, short_window, long_window)
    /\ pc' = "signals"
    /\ UNCHANGED <<short_window, long_window, initial_investment, fill_method,
                   result, error, buys, sells>>

\* --------------------------------------------------------------- backtest
\* A number that is either exact (value) or the symbolic
\* scale * (base ^ exponent - minus): the power is not a rational in general.
Exact(x) == [exact |-> TRUE, value |-> x, base |-> NaN, exponent |-> NaN,
             minus |-> Zero, scale |-> One]

\* b ** e for floats: NaN for a NaN operand, exactly 1 for b = 1, symbolic otherwise.
Pow(b, e) ==
    IF IsNaN(b) \/ IsNaN(e) THEN Exact(NaN)
    ELSE IF b = One THEN Exact(One)
    ELSE [exact |-> FALSE, value |-> NaN, base |-> b, exponent |-> e,
          minus |-> Zero, scale |-> One]

SubOne(r) == IF r.exact THEN Exact(Sub(r.value, One)) ELSE [r EXCEPT !.minus = One]

Scale(r, k) ==
    IF r.exact THEN Exact(Mul(r.value, FromInt(k)))
    ELSE [r EXCEPT !.scale = Mul(@, FromInt(k))]

\* data['Daily_Return'] = data['Close'].pct_change()
DailyReturn(close, fill) == PctChange(close, fill)

\* A strategy return that takes the signal of the same bar (no lag).
StrategyReturnNoLag(daily, signal) ==
    [i \in 1..Len(daily) |-> Mul(daily[i], FromInt(signal[i]))]

\* data['Strategy_Return'] = data['Daily_Return'] * data['Signal'].shift(1)
StrategyReturn(daily, signal) ==
    [i \in 1..Len(daily) |-> Mul(daily[i], Shift(signal)[i])]

\* data['Portfolio_Value'] = (1 + data['Strategy_Return']).cumprod() * initial_investment
PortfolioValue(strategy, init) ==
    LET growth == CumProd([i \in 1..Len(strategy) |-> Add(One, strategy[i])])
    IN  [i \in 1..Len(strategy) |-> Mul(growth[i], FromInt(init))]

\* max_value = cummax(); drawdown = (Portfolio_Value - max_value) / max_value;
\* max_drawdown = drawdown.min()
MaxDrawdown(pv) ==
    LET max_value == CumMax(pv)
        drawdown == [i \in 1..Len(pv) |-> Div(Sub(pv[i], max_value[i]), max_value[i])]
    IN  SeriesMin(drawdown)

\* A final value read from the first row instead of the last.
FinalValueFirst(pv) == pv[1]

\* data['Portfolio_Value'].iloc[-1] (the caller has checked the series is not empty)
FinalValue(pv) == pv[Len(pv)]

\* total_return = data['Portfolio_Value'].iloc[-1] / initial_investment - 1
TotalReturn(pv, init) == Sub(Div(FinalValue(pv), FromInt(init)), One)

\* num_years = (data.index[-1] - data.index[0]).days / 365.25
NumYears(dates) == Rat((dates[Len(dates)] - dates[1]) * 100, 36525)

\* cagr = ((1 + total_return) ** (1 / num_years)) - 1 if num_years > 0 else 0
Cagr(total_return, num_years) ==
    IF Gt(num_years, Zero)
    THEN SubOne(Pow(Add(One, total_return), Div(One, num_years)))
    ELSE Exact(Zero)

\* The three columns backtest adds to the frame (lines 34-36).
BacktestColumns(df, init, fill) ==
    LET daily == DailyReturn(df.Close, fill)
        strategy == StrategyReturn(daily, df.Signal)
    IN  [df EXCEPT !.columns = @ \cup {"Daily_Return", "Strategy_Return", "Portfolio_Value"},
                   !.Daily_Return = daily,
                   !.Strategy_Return = strategy,
                   !.Portfolio_Value = PortfolioValue(strategy, init)]

\* A backtest that lags the Signal column in place before using it.
BacktestFrameShiftsSignal(df, init, fill) ==
    LET lagged == [i \in 1..Len(df.Signal) |-> IF i = 1 THEN 0 ELSE df.Signal[i - 1]]
    IN  [BacktestColumns(df, init, fill) EXCEPT !.Signal = lagged]

\* The frame backtest leaves behind.
BacktestFrame(df, init, fill) == BacktestColumns(df, init, fill)

\* return cagr * 100, max_drawdown * 100, total_return * 100, Portfolio_Value.iloc[-1]
BacktestResult(df, init) ==
    LET pv == df.Portfolio_Value
        total_return == TotalReturn(pv, init)
    IN  [returned |-> TRUE,
         cagr |-> Scale(Cagr(total_return, NumYears(df.Date)), Percent),
         max_drawdown |-> Mul(MaxDrawdown(pv), FromInt(Percent)),
         total_return |-> Mul(total_return, FromInt(Percent)),
         final_value |-> FinalValue(pv)]

\* backtest on a frame with at least one row: runs to its return statement.
BacktestReturn ==
    /\ pc = "signals"
    /\ Len(data.Close) > 0
    /\ data' = BacktestFrame(data, initial_investment, fill_method)
    /\ result' = BacktestResult(data', initial_investment)
    /\ pc' = "done"
    /\ UNCHANGED <<short_window, long_window, initial_investment, fill_method,
                   error, buys, sells>>

\* backtest on a frame with no row: lines 34-40 run on empty columns, then
\* .iloc[-1] of line 42 raises IndexError and nothing is returned.
BacktestRaise ==
    /\ pc = "signals"
    /\ Len(data.Close) = 0
    /\ data' = BacktestFrame(data, initial_investment, fill_method)
    /\ error' = "IndexError"
    /\ pc' = "raised"
    /\ UNCHANGED <<short_window, long_window, initial_investment, fill_method,
                   result, buys, sells>>

\* ------------------------------------------------------------------- main
\* if df.empty: st.error("Failed to fetch stock data."); return
MainFetchFailed ==
    /\ pc = "start"
    /\ Len(data.Close) = 0
    /\ error' = "Failed to fetch stock data."
    /\ pc' = "returned"
    /\ UNCHANGED <<data, short_window, long_window, initial_investment, fill_method,
                   result, buys, sells>>

\* buys = df[df['Position'] == 1]; sells = df[df['Position'] == -1]
MainMarkers ==
    /\ pc = "done"
    /\ buys' = {i \in 1..Len(data.Position) : data.Position[i] = FromInt(1)}
    /\ sells' = {i \in 1..Len(data.Position) : data.Position[i] = FromInt(-1)}
    /\ pc' = "plotted"
    /\ UNCHANGED <<data, short_window, long_window, initial_investment, fill_method,
                   result, error>>

\* generate_signals and backtest are module-level functions: a run is main's
\* (which returns before them on an empty frame) or a direct call of the two.
Next ==
    \/ MainFetchFailed
    \/ GenerateSignals
    \/ BacktestReturn
    \/ BacktestRaise
    \/ MainMarkers

Spec == Init /\ [][Next]_vars

\* ------------------------------------------------------------ properties
N == Len(data.Close)

Defined(x) == ~IsNaN(x)

HasSignals == "Signal" \in data.columns

HasBacktest == "Portfolio_Value" \in data.columns

\* The unweighted arithmetic mean of s[lo..hi].
RECURSIVE SumRange(_, _, _)
SumRange(s, lo, hi) == IF hi < lo THEN Zero ELSE Add(SumRange(s, lo, hi - 1), s[hi])

Mean(s, lo, hi) == Div(SumRange(s, lo, hi), FromInt(hi - lo + 1))

\* C1: after generate_signals, at every index Signal is 1 exactly when both
\* averages are defined and Short_MA > Long_MA, and 0 otherwise.
C1_SignalConsistency ==
    HasSignals =>
        \A i \in 1..N :
            data.Signal[i] =
                IF /\ Defined(data.Short_MA[i])
                   /\ Defined(data.Long_MA[i])
                   /\ Gt(data.Short_MA[i], data.Long_MA[i])
                THEN 1 ELSE 0

\* The first bar whose Signal is 1, or 0 when there is none.
FirstSignalBar ==
    IF \E i \in 1..N : data.Signal[i] = 1
    THEN CHOOSE i \in 1..N : data.Signal[i] = 1 /\ \A j \in 1..(i - 1) : data.Signal[j] = 0
    ELSE 0

\* C2: after backtest, from the second bar on Strategy_Return is Daily_Return
\* times the previous bar's Signal; on the bar where Signal first becomes 1
\* the strategy return is 0, and the following bar earns its daily return.
C2_LagLaw ==
    HasBacktest =>
        /\ \A i \in 2..N :
              data.Strategy_Return[i] = Mul(data.Daily_Return[i], FromInt(data.Signal[i - 1]))
        /\ FirstSignalBar > 0 =>
              /\ data.Strategy_Return[FirstSignalBar] = Zero
              /\ FirstSignalBar < N =>
                    data.Strategy_Return[FirstSignalBar + 1] = data.Daily_Return[FirstSignalBar + 1]

\* A run where the lag shows: the bar that opens the position has a non-zero
\* daily return and earns nothing, and the next bar earns a non-zero return.
C2_Witness ==
    /\ HasBacktest
    /\ FirstSignalBar > 0
    /\ FirstSignalBar < N
    /\ Defined(data.Daily_Return[FirstSignalBar])
    /\ data.Daily_Return[FirstSignalBar] # Zero
    /\ data.Strategy_Return[FirstSignalBar] = Zero
    /\ Defined(data.Strategy_Return[FirstSignalBar + 1])
    /\ data.Strategy_Return[FirstSignalBar + 1] # Zero

WindowLaw(ma, w) ==
    \A i \in 1..N :
        /\ i < w => IsNaN(ma[i])
        /\ (i >= w /\ \A j \in (i - w + 1)..i : Defined(data.Close[j]))
              => ma[i] = Mean(data.Close, i - w + 1, i)
        /\ Defined(ma[i]) => (i >= w /\ \A j \in (i - w + 1)..i : Defined(data.Close[j]))

\* C3: each moving average is undefined before its window is full, equals
\* the arithmetic mean of the trailing window where that window has no gap,
\* and is never an average over fewer bars than the window.
C3_WindowInvariant ==
    HasSignals =>
        /\ WindowLaw(data.Short_MA, short_window)
        /\ WindowLaw(data.Long_MA, long_window)

\* A series longer than a window of 2 or more, with a defined average over
\* two different closes, and a shorter-than-window prefix.
C3_Witness ==
    /\ HasSignals
    /\ long_window >= 2
    /\ short_window < long_window
    /\ N > long_window
    /\ IsNaN(data.Long_MA[long_window - 1])
    /\ \E i \in long_window..N :
          /\ Defined(data.Long_MA[i])
          /\ data.Close[i] # data.Close[i - 1]
          /\ data.Long_MA[i] # data.Short_MA[i]

\* The last defined portfolio value before bar j (NaN when there is none).
RECURSIVE LastDefinedBefore(_, _)
LastDefinedBefore(pv, j) ==
    IF j <= 1 THEN NaN
    ELSE IF Defined(pv[j - 1]) THEN pv[j - 1] ELSE LastDefinedBefore(pv, j - 1)

\* C4: once Portfolio_Value is defined at a bar it is defined at every later
\* bar, and where the strategy return is undefined there it is held at the
\* last defined value.
C4_PortfolioStaysDefined ==
    HasBacktest =>
        \A j \in 1..N :
            Defined(LastDefinedBefore(data.Portfolio_Value, j)) =>
                /\ Defined(data.Portfolio_Value[j])
                /\ IsNaN(data.Strategy_Return[j]) =>
                      data.Portfolio_Value[j] = LastDefinedBefore(data.Portfolio_Value, j)

NonDecreasing(pv) ==
    \A i \in 1..Len(pv), j \in 1..Len(pv) : i < j => Le(pv[i], pv[j])

GapFree == \A i \in 1..N : Defined(data.Close[i])

\* C5: for every non-empty series the max_drawdown backtest computes is
\* <= 0, and it is exactly 0 when Portfolio_Value never decreases (stated
\* for the series without a gap, the claim's plainest case).
C5_DrawdownBound ==
    (result.returned /\ N >= 1 /\ GapFree) =>
        /\ Le(result.max_drawdown, Zero)
        /\ NonDecreasing(data.Portfolio_Value) => result.max_drawdown = Zero

\* C6: the pipeline run on an empty series ends in InsufficientDataError,
\* with no metrics returned and no derived output produced.
C6_EmptyRaisesInsufficientData ==
    (N = 0 /\ pc \in {"raised", "done", "plotted"}) =>
        /\ error = "InsufficientDataError"
        /\ ~result.returned
        /\ data.columns = {"Close"}

\* C7 as stated: the returned total_return is the plain fraction
\* Portfolio_Value[last] / initial_investment - 1, and final_value is
\* Portfolio_Value[last].
C7_PlainFraction ==
    result.returned =>
        /\ result.total_return =
              Sub(Div(data.Portfolio_Value[N], FromInt(initial_investment)), One)
        /\ result.final_value = data.Portfolio_Value[N]

\* C7 amended: the returned total_return is the percentage
\* (Portfolio_Value[last] / initial_investment - 1) * 100 (undefined when
\* Portfolio_Value[last] is), and final_value is Portfolio_Value[last].
C7_PercentReturn ==
    result.returned =>
        /\ result.total_return =
              Mul(Sub(Div(data.Portfolio_Value[N], FromInt(initial_investment)), One),
                  FromInt(100))
        /\ result.final_value = data.Portfolio_Value[N]

\* A returned run whose last portfolio value is defined and differs from the
\* investment, so that the fraction and the percentage differ.
C7_Witness ==
    /\ result.returned
    /\ Defined(result.final_value)
    /\ result.final_value # FromInt(initial_investment)
    /\ Defined(result.total_return)
    /\ result.total_return # Zero

\* C8: when the series spans no time (first date = last date), backtest
\* returns CAGR exactly 0 and no undefined number in its result (stated for
\* the series without a gap).
C8_DegenerateSpan ==
    (result.returned /\ data.Date[N] - data.Date[1] <= 0 /\ GapFree) =>
        /\ result.cagr = Exact(Zero)
        /\ Defined(result.max_drawdown)
        /\ Defined(result.total_return)
        /\ Defined(result.final_value)

\* C9: no step changes the index or the Close column, and once the signal
\* columns exist no step changes Short_MA, Long_MA, Signal or Position.
C9_InputsUnchanged ==
    [][/\ data'.Close = data.Close
       /\ data'.Date = data.Date
       /\ HasSignals =>
             /\ data'.Short_MA = data.Short_MA
             /\ data'.Long_MA = data.Long_MA
             /\ data'.Signal = data.Signal
             /\ data'.Position = data.Position]_vars

\* backtest has run on a frame with a gap in Close and a raised Signal.
C9_Witness ==
    /\ pc = "done"
    /\ HasBacktest
    /\ \E i \in 1..N : IsNaN(data.Close[i])
    /\ \E i \in 1..N : data.Signal[i] = 1
    /\ \E i \in 1..N : Defined(data.Portfolio_Value[i])

\* The non-zero Position entries among the bars 2..i.
Events(i) == {j \in 2..i : data.Position[j] \in {FromInt(1), FromInt(-1)}}

\* C10: Signal starts at 0; the buy/sell events alternate starting with a
\* buy; the Position entries of bars 2..i add up to Signal[i]; buys never
\* trail sells and lead by at most one.
C10_EventsAlternate ==
    /\ HasSignals =>
          /\ N >= 1 => data.Signal[1] = 0 /\ IsNaN(data.Position[1])
          /\ \A i \in 2..N :
                /\ data.Position[i] \in {FromInt(1), FromInt(-1), Zero}
                /\ SumRange(data.Position, 2, i) = FromInt(data.Signal[i])
                /\ i \in Events(N) =>
                      IF \E j \in Events(i - 1) : TRUE
                      THEN LET prev == CHOOSE j \in Events(i - 1) :
                                           \A k \in Events(i - 1) : k <= j
                           IN  data.Position[i] = Sub(Zero, data.Position[prev])
                      ELSE data.Position[i] = FromInt(1)
                /\ LET nb == Cardinality({j \in Events(i) : data.Position[j] = FromInt(1)})
                       ns == Cardinality({j \in Events(i) : data.Position[j] = FromInt(-1)})
                   IN  nb - ns \in {0, 1}
    /\ pc = "plotted" =>
          /\ Cardinality(buys) - Cardinality(sells) \in {0, 1}
          /\ buys \cup sells = Events(N)

\* main has selected the markers of a run with two buys and a sell between them.
C10_Witness ==
    /\ pc = "plotted"
    /\ Cardinality(buys) >= 2
    /\ Cardinality(sells) >= 1

====
